---- MODULE Spec2Model ----
(***************************************************************************)
(* Model of getAdvancedContract (packages/contracts-bedrock/src/           *)
(* deploy-utils.ts): the wrapper installed over every method of a contract *)
(* handle.  A wrapped call resolves a gas price, submits the underlying    *)
(* method, and, when the result is a transaction, runs the poll loop that  *)
(* waits for numDeployConfirmations confirmations and, on 'kovan' only,    *)
(* resubmits after more than maxTimeout rounds without a receipt.          *)
(*                                                                         *)
(* One action per step between two awaits of the async wrapper:            *)
(*   Invoke     lines 105-120  gas price resolution, fn(...args,{gasPrice}) *)
(*   FnSettled  lines 120-133  the awaited fn settles; typeof/wait test    *)
(*   Sleep      line  135      await sleep(1000)                           *)
(*   Poll       lines 136-150  the awaited getTransactionReceipt settles   *)
(***************************************************************************)
EXTENDS Integers, Sequences, FiniteSets, TLC

VARIABLES
    network,      \* opts.hre.network.name
    deployConfig, \* opts.hre.deployConfig (read-only)
    pc,           \* per call: position of the async wrapper
    fnName,       \* per call: the wrapped method that was invoked
    args,         \* per call: the caller's arguments (...args)
    subs,         \* per call: the submissions fn(...args, {gasPrice}) made so far
    fnResult,     \* per call: what the latest awaited fn(...) resolved with
    tx,           \* per call: the transaction record held by the running frame
    timeout,      \* per call: the local round counter of the running frame
    sleeps,       \* per call: number of completed sleep(1000)
    polls,        \* per call: number of settled getTransactionReceipt queries
    absent,       \* per call: number of polls that returned null
    low,          \* per call: number of polls with a receipt below the threshold
    lastReceipt,  \* per call: outcome of the latest receipt query
    queried,      \* per call: the hash passed to the latest receipt query
    warnings,     \* per call: number of console.log warnings emitted
    ret,          \* per call: the value the wrapped call resolved with
    err,          \* per call: the error the wrapped call rejected with
    mined         \* per call: the node holds for good a receipt of the tracked
                  \* transaction with at least numDeployConfirmations confirmations

vars == <<network, deployConfig, pc, fnName, args, subs, fnResult, tx, timeout, sleeps,
          polls, absent, low, lastReceipt, queried, warnings, ret, err, mined>>

\* ---------------------------------------------------------------- bounds
MaxN == 2            \* largest numDeployConfirmations drawn
MaxConf == 3         \* largest receipt.confirmations drawn
MaxLowPolls == 2     \* receipts below the threshold one call may observe
MaxResubmits == 2    \* resubmissions one call may perform
MaxRounds == 124     \* rounds without a receipt one attempt may observe

MaxConcRounds == 2   \* rounds without a receipt the second concurrent call may observe
MaxConcResubmits == 1 \* resubmissions one call may perform when two calls run
MaxConcLow == 1      \* receipts below the threshold the second concurrent call may observe

\* ------------------------------------------------------- program constants
maxTimeout == 120

\* ------------------------------------------------------------ input sets
CallIds == {"a", "b"}
Networks == {"kovan", "mainnet"}
ArgLists == {<<1>>, <<2>>}
ConfigGasPrice == 7

\* contract.interface: the methods of the handle and their `constant` flag
Interface == [balanceOf |-> [constant |-> TRUE], transfer |-> [constant |-> FALSE]]
FnNames == DOMAIN Interface

\* a gas price is a set: {} is `undefined`, {p} is the number p
Undefined == {}

DeployConfigs ==
    {[available |-> FALSE, gasPrice |-> Undefined, numDeployConfirmations |-> 0]}
    \cup [available : {TRUE}, gasPrice : {Undefined, {ConfigGasPrice}},
          numDeployConfirmations : 0..MaxN]

\* ------------------------------------------------- values of the program
NoHash == <<"none", 0>>
Hash(c, i) == <<c, i>>

\* what the awaited fn(...) resolves with: a transaction response (an object
\* with a wait function), an object without one, or a primitive
TxRecord(h) == [typeof |-> "object", wait |-> "function", id |-> h]
PlainResults ==
    {[typeof |-> "object", wait |-> "undefined", id |-> <<"result", 1>>],
     [typeof |-> "string", wait |-> "undefined", id |-> <<"result", 2>>]}
NoResult == [typeof |-> "undefined", wait |-> "undefined", id |-> NoHash]

\* outcomes of provider.getTransactionReceipt
NoReceipt == [kind |-> "none", confirmations |-> 0]
NullReceipt == [kind |-> "null", confirmations |-> 0]
QueryRejected == [kind |-> "rejected", confirmations |-> 0]
Receipt(n) == [kind |-> "receipt", confirmations |-> n]
PollOutcomes == {NullReceipt, QueryRejected} \cup {Receipt(n) : n \in 0..MaxConf}

\* --------------------------------------------------------- pure helpers
\* variant: the constant test of lines 116-118 is left out
ResolveGasPriceNoConstantTest(fn) ==
    IF deployConfig.available THEN deployConfig.gasPrice ELSE Undefined

\* lines 109-118: the gas price passed in the overrides of the submission
ResolveGasPrice(fn) ==
    LET configured == IF deployConfig.available THEN deployConfig.gasPrice
                      ELSE Undefined   \* the read throws, caught: stays undefined
    IN  IF Interface[fn].constant THEN {0} ELSE configured

\* variant: only the typeof test of line 124
IsTxLikeAnyObject(r) == r.typeof = "object"

\* line 124, negated: the result goes on to the poll loop
IsTxLike(r) == ~(r.typeof # "object" \/ r.wait # "function")

\* variants of line 139: no network test; the network test inverted; >= for >
ShouldResubmitAnyNetwork(t) == t > maxTimeout
ShouldResubmitOtherNetworks(t) == t > maxTimeout /\ network # "kovan"
ShouldResubmitAtBound(t) == t >= maxTimeout /\ network = "kovan"

\* line 139
ShouldResubmit(t) == t > maxTimeout /\ network = "kovan"

\* variants of line 147: one confirmation short; strictly more than
ConfirmedOneShort(receipt) ==
    receipt.confirmations + 1 >= deployConfig.numDeployConfirmations
ConfirmedStrict(receipt) ==
    receipt.confirmations > deployConfig.numDeployConfirmations

\* variant of line 147: the comparison inverted
ConfirmedBelow(receipt) ==
    receipt.confirmations < deployConfig.numDeployConfirmations

\* line 147
Confirmed(receipt) == receipt.confirmations >= deployConfig.numDeployConfirmations

\* variant: the loop queries first and never reaches the sleep
LoopHeadPollFirst == "poll"

\* line 134-135: every iteration of the loop starts with the sleep
LoopHead == "sleep"

\* variant: the overrides object of lines 120-122 is not passed
SubmissionNoOverride(fn, a) == [fnName |-> fn, args |-> a, gasPrice |-> Undefined]

\* lines 105-120 up to the await: one submission of the underlying method
Submission(fn, a) == [fnName |-> fn, args |-> a, gasPrice |-> ResolveGasPrice(fn)]

Init ==
    /\ network \in Networks
    /\ deployConfig \in DeployConfigs
    /\ pc = [c \in CallIds |-> "idle"]
    /\ fnName = [c \in CallIds |-> "balanceOf"]
    /\ args = [c \in CallIds |-> <<1>>]
    /\ subs = [c \in CallIds |-> <<>>]
    /\ fnResult = [c \in CallIds |-> NoResult]
    /\ tx = [c \in CallIds |-> NoResult]
    /\ timeout = [c \in CallIds |-> 0]
    /\ sleeps = [c \in CallIds |-> 0]
    /\ polls = [c \in CallIds |-> 0]
    /\ absent = [c \in CallIds |-> 0]
    /\ low = [c \in CallIds |-> 0]
    /\ lastReceipt = [c \in CallIds |-> NoReceipt]
    /\ queried = [c \in CallIds |-> NoHash]
    /\ warnings = [c \in CallIds |-> 0]
    /\ ret = [c \in CallIds |-> NoResult]
    /\ err = [c \in CallIds |-> "none"]
    /\ mined = [c \in CallIds |-> FALSE]

\* the caller invokes contract[fn](...a): lines 105-120 up to `await fn(...)`
Invoke(c, fn, a) ==
    /\ pc[c] = "idle"
    /\ fnName' = [fnName EXCEPT ![c] = fn]
    /\ args' = [args EXCEPT ![c] = a]
    /\ subs' = [subs EXCEPT ![c] = Append(@, Submission(fn, a))]
    /\ pc' = [pc EXCEPT ![c] = "submitting"]
    /\ UNCHANGED <<network, deployConfig, mined, fnResult, tx, timeout, sleeps, polls,
                   absent, low, lastReceipt, queried, warnings, ret, err>>

\* the awaited fn(...) rejects: the wrapped call rejects with it (line 120)
FnRejected(c) ==
    /\ pc[c] = "submitting"
    /\ pc' = [pc EXCEPT ![c] = "failed"]
    /\ err' = [err EXCEPT ![c] = "fnRejected"]
    /\ UNCHANGED <<network, deployConfig, mined, fnName, args, subs, fnResult, tx, timeout,
                   sleeps, polls, absent, low, lastReceipt, queried, warnings, ret>>

\* variant: a resubmission goes on tracking the transaction of the first
\* submission instead of the record the new fn(...) resolved with
FnSettledKeepFirst(c, r) ==
    /\ pc[c] = "submitting"
    /\ fnResult' = [fnResult EXCEPT ![c] = r]
    /\ IF IsTxLike(r)
         THEN /\ tx' = [tx EXCEPT ![c] = IF @ = NoResult THEN r ELSE @]
              /\ timeout' = [timeout EXCEPT ![c] = 0]
              /\ pc' = [pc EXCEPT ![c] = LoopHead]
              /\ ret' = ret
         ELSE /\ ret' = [ret EXCEPT ![c] = r]
              /\ pc' = [pc EXCEPT ![c] = "returned"]
              /\ UNCHANGED <<tx, timeout>>
    /\ UNCHANGED <<network, deployConfig, mined, fnName, args, subs, sleeps, polls,
                   absent, low, lastReceipt, queried, warnings, err>>

\* the awaited fn(...) resolves with r: lines 120-133
FnSettled(c, r) ==
    /\ pc[c] = "submitting"
    /\ fnResult' = [fnResult EXCEPT ![c] = r]
    /\ IF IsTxLike(r)
         THEN /\ tx' = [tx EXCEPT ![c] = r]
              /\ timeout' = [timeout EXCEPT ![c] = 0]
              /\ pc' = [pc EXCEPT ![c] = LoopHead]
              /\ ret' = ret
         ELSE /\ ret' = [ret EXCEPT ![c] = r]
              /\ pc' = [pc EXCEPT ![c] = "returned"]
              /\ UNCHANGED <<tx, timeout>>
    /\ UNCHANGED <<network, deployConfig, mined, fnName, args, subs, sleeps, polls,
                   absent, low, lastReceipt, queried, warnings, err>>

\* line 135
Sleep(c) ==
    /\ pc[c] = "sleep"
    /\ sleeps' = [sleeps EXCEPT ![c] = @ + 1]
    /\ pc' = [pc EXCEPT ![c] = "poll"]
    /\ UNCHANGED <<network, deployConfig, mined, fnName, args, subs, fnResult, tx, timeout,
                   polls, absent, low, lastReceipt, queried, warnings, ret, err>>

\* variant: the round counter is declared outside the closure of line 105 and
\* so is shared by all calls
OnNullSharedCounter(c) ==
    /\ timeout' = [d \in CallIds |-> timeout[d] + 1]
    /\ absent' = [absent EXCEPT ![c] = @ + 1]
    /\ IF ShouldResubmit(timeout[c] + 1)
         THEN /\ warnings' = [warnings EXCEPT ![c] = @ + 1]
              /\ subs' = [subs EXCEPT ![c] = Append(@, Submission(fnName[c], args[c]))]
              /\ fnResult' = [fnResult EXCEPT ![c] = NoResult]
              /\ pc' = [pc EXCEPT ![c] = "submitting"]
         ELSE /\ pc' = [pc EXCEPT ![c] = LoopHead]
              /\ UNCHANGED <<warnings, subs, fnResult>>
    /\ UNCHANGED <<low, ret, err>>

\* variant: line 144 calls the unwrapped fn, so only the first attempt can
\* resubmit
OnNullResubmitOnce(c) ==
    /\ timeout' = [timeout EXCEPT ![c] = @ + 1]
    /\ absent' = [absent EXCEPT ![c] = @ + 1]
    /\ IF ShouldResubmit(timeout[c] + 1) /\ Len(subs[c]) = 1
         THEN /\ warnings' = [warnings EXCEPT ![c] = @ + 1]
              /\ subs' = [subs EXCEPT ![c] = Append(@, Submission(fnName[c], args[c]))]
              /\ fnResult' = [fnResult EXCEPT ![c] = NoResult]
              /\ pc' = [pc EXCEPT ![c] = "submitting"]
         ELSE /\ pc' = [pc EXCEPT ![c] = LoopHead]
              /\ UNCHANGED <<warnings, subs, fnResult>>
    /\ UNCHANGED <<low, ret, err>>

\* variant: a missing receipt is read as a receipt with 0 confirmations
\* ((receipt?.confirmations ?? 0) >= numDeployConfirmations is tested first)
OnNullAsZeroConfirmations(c) ==
    IF deployConfig.available /\ 0 >= deployConfig.numDeployConfirmations
      THEN /\ ret' = [ret EXCEPT ![c] = tx[c]]
           /\ pc' = [pc EXCEPT ![c] = "returned"]
           /\ UNCHANGED <<timeout, absent, low, warnings, subs, fnResult, err>>
      ELSE /\ timeout' = [timeout EXCEPT ![c] = @ + 1]
           /\ absent' = [absent EXCEPT ![c] = @ + 1]
           /\ IF ShouldResubmit(timeout[c] + 1)
                THEN /\ warnings' = [warnings EXCEPT ![c] = @ + 1]
                     /\ subs' = [subs EXCEPT ![c] = Append(@, Submission(fnName[c], args[c]))]
                     /\ fnResult' = [fnResult EXCEPT ![c] = NoResult]
                     /\ pc' = [pc EXCEPT ![c] = "submitting"]
                ELSE /\ pc' = [pc EXCEPT ![c] = LoopHead]
                     /\ UNCHANGED <<warnings, subs, fnResult>>
           /\ UNCHANGED <<low, ret, err>>

\* lines 137-145: the query resolved with null
OnNull(c) ==
    /\ timeout' = [timeout EXCEPT ![c] = @ + 1]
    /\ absent' = [absent EXCEPT ![c] = @ + 1]
    /\ IF ShouldResubmit(timeout[c] + 1)
         THEN \* lines 141-144: warn, then contract[fnName](...args) re-enters
              \* the wrapper, which runs to its own `await fn(...)`
              /\ warnings' = [warnings EXCEPT ![c] = @ + 1]
              /\ subs' = [subs EXCEPT ![c] = Append(@, Submission(fnName[c], args[c]))]
              /\ fnResult' = [fnResult EXCEPT ![c] = NoResult]
              /\ pc' = [pc EXCEPT ![c] = "submitting"]
         ELSE /\ pc' = [pc EXCEPT ![c] = LoopHead]
              /\ UNCHANGED <<warnings, subs, fnResult>>
    /\ UNCHANGED <<low, ret, err>>

\* variant: a receipt below the threshold resets the round counter, so only
\* consecutive rounds without a receipt count
OnReceiptResetsRounds(c, receipt) ==
    IF ~deployConfig.available
      THEN /\ pc' = [pc EXCEPT ![c] = "failed"]
           /\ err' = [err EXCEPT ![c] = "configUnavailable"]
           /\ UNCHANGED <<timeout, absent, low, warnings, subs, fnResult, ret>>
      ELSE IF Confirmed(receipt)
             THEN /\ ret' = [ret EXCEPT ![c] = tx[c]]
                  /\ pc' = [pc EXCEPT ![c] = "returned"]
                  /\ UNCHANGED <<timeout, absent, low, warnings, subs, fnResult, err>>
             ELSE /\ low' = [low EXCEPT ![c] = @ + 1]
                  /\ timeout' = [timeout EXCEPT ![c] = 0]
                  /\ pc' = [pc EXCEPT ![c] = LoopHead]
                  /\ UNCHANGED <<absent, warnings, subs, fnResult, ret, err>>

\* lines 146-150: the query resolved with a receipt
OnReceipt(c, receipt) ==
    IF ~deployConfig.available
      THEN \* reading numDeployConfirmations of the missing configuration throws
           /\ pc' = [pc EXCEPT ![c] = "failed"]
           /\ err' = [err EXCEPT ![c] = "configUnavailable"]
           /\ UNCHANGED <<timeout, absent, low, warnings, subs, fnResult, ret>>
      ELSE IF Confirmed(receipt)
             THEN /\ ret' = [ret EXCEPT ![c] = tx[c]]
                  /\ pc' = [pc EXCEPT ![c] = "returned"]
                  /\ UNCHANGED <<timeout, absent, low, warnings, subs, fnResult, err>>
             ELSE /\ low' = [low EXCEPT ![c] = @ + 1]
                  /\ pc' = [pc EXCEPT ![c] = LoopHead]
                  /\ UNCHANGED <<timeout, absent, warnings, subs, fnResult, ret, err>>

\* variant: a catch around line 136 that treats the rejection as null
OnQueryErrorAsNull(c) ==
    /\ timeout' = [timeout EXCEPT ![c] = @ + 1]
    /\ pc' = [pc EXCEPT ![c] = LoopHead]
    /\ UNCHANGED <<absent, low, warnings, subs, fnResult, ret, err>>

\* line 136: the awaited query rejected; nothing catches it
OnQueryError(c) ==
    /\ pc' = [pc EXCEPT ![c] = "failed"]
    /\ err' = [err EXCEPT ![c] = "queryRejected"]
    /\ UNCHANGED <<timeout, absent, low, warnings, subs, fnResult, ret>>

\* the environment stays within the bounds of the model
WithinBounds(c, o) ==
    /\ o.kind = "null" =>
         /\ timeout[c] < MaxRounds
         /\ ShouldResubmit(timeout[c] + 1) => Len(subs[c]) <= MaxResubmits
    /\ (o.kind = "receipt" /\ deployConfig.available /\ ~Confirmed(o)) =>
         low[c] < MaxLowPolls

\* what the node can answer to the query of line 136: once the tracked
\* transaction is mined deep enough for good, only such receipts
NodeAnswers(c, o) ==
    mined[c] =>
        (o.kind = "receipt" /\ o.confirmations >= deployConfig.numDeployConfirmations)

\* lines 136-150: getTransactionReceipt(tx.hash) settles with outcome o
Poll(c, o) ==
    /\ pc[c] = "poll"
    /\ WithinBounds(c, o)
    /\ NodeAnswers(c, o)
    /\ polls' = [polls EXCEPT ![c] = @ + 1]
    /\ queried' = [queried EXCEPT ![c] = tx[c].id]
    /\ lastReceipt' = [lastReceipt EXCEPT ![c] = o]
    /\ CASE o.kind = "null" -> OnNull(c)
         [] o.kind = "rejected" -> OnQueryError(c)
         [] OTHER -> OnReceipt(c, o)
    /\ UNCHANGED <<network, deployConfig, mined, fnName, args, tx, sleeps>>

\* the chain: the transaction tracked by call c gets, and keeps, at least
\* numDeployConfirmations confirmations
Mine(c) ==
    /\ pc[c] \in {"sleep", "poll"}
    /\ deployConfig.available
    /\ ~mined[c]
    /\ mined' = [mined EXCEPT ![c] = TRUE]
    /\ UNCHANGED <<network, deployConfig, pc, fnName, args, subs, fnResult, tx,
                   timeout, sleeps, polls, absent, low, lastReceipt, queried,
                   warnings, ret, err>>

Step(c) ==
    \/ \E fn \in FnNames, a \in ArgLists : Invoke(c, fn, a)
    \/ FnRejected(c)
    \/ \E r \in PlainResults \cup {TxRecord(Hash(c, Len(subs[c])))} : FnSettled(c, r)
    \/ Sleep(c)
    \/ \E o \in PollOutcomes : Poll(c, o)

\* one wrapped call
Next == Step("a")

Spec == Init /\ [][Next]_vars

\* two wrapped calls issued by the caller, interleaved at their awaits: the
\* node has no receipt for the transactions of call "a" for as long as it
\* likes, and produces the receipts of call "b" within a few rounds
ConcBounds ==
    /\ timeout["b"] <= MaxConcRounds
    /\ low["b"] <= MaxConcLow
    /\ low["a"] = 0
    /\ \A c \in CallIds : Len(subs[c]) <= MaxConcResubmits + 1

NextConc == \E c \in CallIds : Step(c) /\ ConcBounds'

\* the configuration with which both calls run
InitConc ==
    /\ Init
    /\ network = "kovan"
    /\ deployConfig.available
    /\ deployConfig.gasPrice = {ConfigGasPrice}
    /\ deployConfig.numDeployConfirmations = 1

SpecConc == InitConc /\ [][NextConc]_vars

\* one wrapped call whose transaction is eventually mined; the timer of
\* sleep(1000) fires and the node answers every query
NextLive == Step("a") \/ Mine("a")

SpecLive ==
    /\ Init
    /\ [][NextLive]_vars
    /\ WF_vars(Sleep("a"))
    /\ WF_vars(\E o \in PollOutcomes : Poll("a", o))

\* ------------------------------------------------------------- properties
N == deployConfig.numDeployConfirmations
Polled(c) == polls'[c] = polls[c] + 1
Running(c) == pc[c] \in {"submitting", "sleep", "poll"}
Last(s) == s[Len(s)]
HasWait(r) == r.typeof = "object" /\ r.wait = "function"
HasNoWait(r) == r # NoResult /\ ~HasWait(r)
ReturnedTx(c) == pc[c] = "returned" /\ HasWait(ret[c])

\* C1: a wrapped call that returned a transaction record returned the record
\* it was tracking, and the poll that made it return queried that record's
\* hash and yielded a receipt with confirmations >= numDeployConfirmations,
\* also after resubmissions.
C1_NeverConfirmedBelowThreshold ==
    \A c \in CallIds :
        ReturnedTx(c) =>
            /\ deployConfig.available
            /\ lastReceipt[c].kind = "receipt"
            /\ lastReceipt[c].confirmations >= N
            /\ queried[c] = ret[c].id

C1_Witness ==
    /\ ReturnedTx("a")
    /\ ~Interface[fnName["a"]].constant
    /\ N = MaxN
    /\ warnings["a"] >= 1
    /\ low["a"] >= 1

C3_NoResubmitOffKovan ==
    \A c \in CallIds :
        (network # "kovan" /\ pc[c] # "idle") =>
            (Len(subs[c]) = 1 /\ warnings[c] = 0)

C3_Witness ==
    /\ network # "kovan"
    /\ timeout["a"] > maxTimeout + 2
    /\ Len(subs["a"]) = 1

\* C4: on 'kovan' a null poll that brings the round counter to 1..120 does not
\* resubmit; the null poll that brings it to 121 logs one warning and
\* re-invokes the same method with the caller's arguments; when that
\* submission yields a transaction record the loop restarts on it with a new
\* hash and the round counter at 0.
C4_KovanResubmitsAtRound121 ==
    [][\A c \in CallIds :
        /\ (network = "kovan" /\ Polled(c) /\ lastReceipt'[c].kind = "null") =>
              IF timeout[c] + 1 <= maxTimeout
                THEN /\ subs'[c] = subs[c]
                     /\ warnings'[c] = warnings[c]
                     /\ timeout'[c] = timeout[c] + 1
                     /\ pc'[c] = "sleep"
                ELSE /\ timeout'[c] = maxTimeout + 1
                     /\ warnings'[c] = warnings[c] + 1
                     /\ Len(subs'[c]) = Len(subs[c]) + 1
                     /\ Last(subs'[c]).fnName = fnName[c]
                     /\ Last(subs'[c]).args = args[c]
                     /\ Last(subs'[c]).fnName = subs[c][1].fnName
                     /\ Last(subs'[c]).args = subs[c][1].args
                     /\ pc'[c] = "submitting"
        /\ (network = "kovan" /\ pc[c] = "submitting" /\ pc'[c] = "sleep") =>
              /\ timeout'[c] = 0
              /\ tx'[c].id # tx[c].id
              /\ tx'[c].id = Hash(c, Len(subs[c]))]_vars

C4_Witness ==
    /\ network = "kovan"
    /\ warnings["a"] = 1
    /\ polls["a"] = maxTimeout + 1
    /\ absent["a"] = maxTimeout + 1
    /\ pc["a"] = "sleep"
    /\ timeout["a"] = 0
    /\ tx["a"].id = Hash("a", 2)

\* C5: on a network other than 'kovan', as long as every poll of a tracked
\* transaction returned null, the call has neither returned nor failed nor
\* resubmitted: it is still in the poll loop, with one round counted per poll.
C5_OffKovanNoReceiptStaysPending ==
    \A c \in CallIds :
        (network # "kovan" /\ HasWait(fnResult[c]) /\ polls[c] = absent[c]) =>
            /\ pc[c] \in {"sleep", "poll"}
            /\ ret[c] = NoResult
            /\ err[c] = "none"
            /\ Len(subs[c]) = 1
            /\ timeout[c] = polls[c]

C5_Witness ==
    /\ network # "kovan"
    /\ HasWait(fnResult["a"])
    /\ polls["a"] = absent["a"]
    /\ polls["a"] > maxTimeout + 1
    /\ pc["a"] = "sleep"

\* C6: every submission made by a call to a constant method carries gas price
\* 0, whether the configuration has a gas price, has none, or is unavailable.
C6_ConstantCallGasPriceZero ==
    \A c \in CallIds :
        (pc[c] # "idle" /\ Interface[fnName[c]].constant) =>
            /\ Len(subs[c]) >= 1
            /\ \A i \in 1..Len(subs[c]) : subs[c][i].gasPrice = {0}

C6_Witness ==
    /\ Interface[fnName["a"]].constant
    /\ deployConfig.available
    /\ deployConfig.gasPrice = {ConfigGasPrice}
    /\ pc["a"] = "returned"
    /\ HasNoWait(ret["a"])
    /\ subs["a"][1].gasPrice = {0}

\* C7: with the deployment configuration unavailable, a call to a mutating
\* method is submitted without a gas price override and never fails because
\* of the missing configuration, at submission or while tracking.
C7_MissingConfigNeverFailsCall ==
    \A c \in CallIds :
        (~deployConfig.available /\ pc[c] # "idle" /\ ~Interface[fnName[c]].constant) =>
            /\ Len(subs[c]) >= 1
            /\ \A i \in 1..Len(subs[c]) : subs[c][i].gasPrice = Undefined
            /\ err[c] # "configUnavailable"

\* C8: when the underlying call resolves with something that is not an object
\* with a wait function, the wrapped call returns exactly that value at once:
\* a first invocation has then slept, queried and resubmitted nothing, and a
\* returned call does nothing more.
C8_NonTxResultBypassesTracker ==
    /\ [](\A c \in CallIds :
            HasNoWait(fnResult[c]) =>
                /\ pc[c] = "returned"
                /\ ret[c] = fnResult[c]
                /\ tx[c].id # Hash(c, Len(subs[c]))
                /\ Len(subs[c]) = 1 =>
                     (sleeps[c] = 0 /\ polls[c] = 0 /\ queried[c] = NoHash
                      /\ warnings[c] = 0 /\ tx[c] = NoResult))
    /\ [][\A c \in CallIds :
            (pc[c] = "submitting" /\ pc'[c] = "returned") =>
                /\ HasNoWait(ret'[c])
                /\ sleeps'[c] = sleeps[c]
                /\ polls'[c] = polls[c]
                /\ queried'[c] = queried[c]
                /\ subs'[c] = subs[c]]_vars

C8_Witness ==
    /\ pc["a"] = "returned"
    /\ HasNoWait(ret["a"])
    /\ ret["a"].typeof = "object"
    /\ network = "kovan"
    /\ sleeps["a"] = 0
    /\ polls["a"] = 0

\* C9 as stated: a call that returned its transaction at its k-th poll has
\* slept k-1 times.
C9_SleptOnceLessThanPolled ==
    \A c \in CallIds : ReturnedTx(c) => sleeps[c] = polls[c] - 1

\* C9 amended: the sleep precedes every poll, so a call that has polled k
\* times has slept k times (k+1 while the k+1-th query is in flight); with
\* threshold 2 and polls [null, null, 1, 2] it returns at the 4th poll having
\* slept 4 times.
C9_SleptOncePerPoll ==
    \A c \in CallIds :
        sleeps[c] = IF pc[c] = "poll" THEN polls[c] + 1 ELSE polls[c]

C9_Witness ==
    /\ ReturnedTx("a")
    /\ N = 2
    /\ polls["a"] = 4
    /\ absent["a"] = 2
    /\ low["a"] = 1
    /\ lastReceipt["a"] = Receipt(2)
    /\ sleeps["a"] = 4

\* C10 as stated: a receipt query that yields anything but a receipt counts as
\* a round without a receipt and never fails the call.
C10_QueryErrorCountsAsAbsent ==
    [][\A c \in CallIds :
        (Polled(c) /\ lastReceipt'[c].kind # "receipt") =>
            /\ timeout'[c] = timeout[c] + 1
            /\ pc'[c] # "failed"]_vars

\* C10 amended: only a null result counts as a round without a receipt and
\* keeps the call going; a rejected query is not caught: the call fails with
\* it at once, without counting a round or resubmitting, and stays failed.
C10_QueryErrorFailsCall ==
    [][\A c \in CallIds :
        /\ (Polled(c) /\ lastReceipt'[c].kind = "null") =>
              /\ timeout'[c] = timeout[c] + 1
              /\ pc'[c] \in {"sleep", "submitting"}
              /\ err'[c] = "none"
        /\ (Polled(c) /\ lastReceipt'[c].kind = "rejected") =>
              /\ pc'[c] = "failed"
              /\ err'[c] = "queryRejected"
              /\ timeout'[c] = timeout[c]
              /\ subs'[c] = subs[c]
              /\ ret'[c] = NoResult
        /\ pc[c] = "failed" =>
              (pc'[c] = "failed" /\ polls'[c] = polls[c] /\ sleeps'[c] = sleeps[c])]_vars

C10_Witness ==
    /\ pc["a"] = "failed"
    /\ err["a"] = "queryRejected"
    /\ lastReceipt["a"].kind = "rejected"
    /\ polls["a"] >= 2
    /\ timeout["a"] = polls["a"] - 1

\* C11: as the doc comment of getAdvancedContract says, a wrapped call returns
\* its transaction only after a poll observed strictly more than
\* numDeployConfirmations confirmations.
C11_ReturnsOnlyAboveThreshold ==
    \A c \in CallIds :
        ReturnedTx(c) =>
            /\ lastReceipt[c].kind = "receipt"
            /\ lastReceipt[c].confirmations > N

\* the state of one call
CallState(c) ==
    <<pc[c], fnName[c], args[c], subs[c], fnResult[c], tx[c], timeout[c],
      sleeps[c], polls[c], absent[c], low[c], lastReceipt[c], queried[c],
      warnings[c], ret[c], err[c], mined[c]>>

\* C12: with two calls interleaved at their awaits, every step belongs to one
\* call and leaves the other call's round counter, tracked hash and all the
\* rest of its state unchanged, the configuration is never written, a call
\* queries only its own hash, and what a poll decides (return, resubmit, go
\* on) is fixed by that call's own counter and receipt and the configuration.
C12_CallsAreIndependent ==
    [][/\ network' = network
       /\ deployConfig' = deployConfig
       /\ \E c \in CallIds :
            /\ \A d \in CallIds \ {c} : CallState(d)' = CallState(d)
            /\ Polled(c) =>
                 /\ queried'[c] = tx[c].id
                 /\ tx[c].id[1] = c
                 /\ (lastReceipt'[c].kind = "receipt" /\ deployConfig.available) =>
                       IF lastReceipt'[c].confirmations >= N
                         THEN pc'[c] = "returned" /\ ret'[c] = tx[c]
                         ELSE pc'[c] = "sleep" /\ timeout'[c] = timeout[c]
                 /\ lastReceipt'[c].kind = "null" =>
                       /\ timeout'[c] = timeout[c] + 1
                       /\ pc'[c] = IF timeout[c] + 1 > maxTimeout /\ network = "kovan"
                                     THEN "submitting" ELSE "sleep"]_vars

C12_Witness ==
    /\ ReturnedTx("b")
    /\ ret["b"].id = Hash("b", 1)
    /\ timeout["b"] >= 1
    /\ warnings["a"] = 1
    /\ pc["a"] = "poll"
    /\ tx["a"].id = Hash("a", 2)
    /\ timeout["a"] = 0

\* the hashes of the submissions a call has abandoned by resubmitting
Abandoned(c) == {Hash(c, i) : i \in 1..(Len(subs[c]) - 1)}

\* C13: every receipt query is for the hash of the latest submission, never
\* for one abandoned by a resubmission, and the transaction record a call
\* returns is that of its latest submission.
C13_AbandonedNeverQueriedNorReturned ==
    [][\A c \in CallIds :
        /\ Polled(c) =>
              /\ queried'[c] = Hash(c, Len(subs[c]))
              /\ queried'[c] \notin Abandoned(c)
        /\ (pc[c] = "poll" /\ pc'[c] = "returned") =>
              /\ ret'[c].id = Hash(c, Len(subs[c]))
              /\ ret'[c].id \notin Abandoned(c)]_vars

C13_Witness ==
    /\ ReturnedTx("a")
    /\ warnings["a"] = 2
    /\ ret["a"].id = Hash("a", 3)
    /\ queried["a"] = Hash("a", 3)
    /\ Abandoned("a") = {Hash("a", 1), Hash("a", 2)}

\* C14: while a call is in its poll loop, the round counter equals the number
\* of null polls of the current attempt; a null poll adds exactly one, a
\* receipt below the threshold leaves it unchanged and the call polls again,
\* nothing resets it; on 'kovan' the resubmission fires exactly at the null
\* poll that brings this cumulative count to 121.
C14_RoundCounterCountsNullPolls ==
    /\ [](\A c \in CallIds :
            pc[c] \in {"sleep", "poll"} =>
                timeout[c] = absent[c] - (maxTimeout + 1) * warnings[c])
    /\ [][\A c \in CallIds :
            /\ Polled(c) =>
                 /\ lastReceipt'[c].kind = "null" =>
                       (timeout'[c] = timeout[c] + 1 /\ absent'[c] = absent[c] + 1)
                 /\ (/\ lastReceipt'[c].kind = "receipt"
                     /\ deployConfig.available
                     /\ lastReceipt'[c].confirmations < N) =>
                       /\ timeout'[c] = timeout[c]
                       /\ absent'[c] = absent[c]
                       /\ subs'[c] = subs[c]
                       /\ pc'[c] = "sleep"
                 /\ (warnings'[c] # warnings[c]) <=>
                       /\ network = "kovan"
                       /\ lastReceipt'[c].kind = "null"
                       /\ timeout'[c] = maxTimeout + 1
            /\ (pc[c] \in {"sleep", "poll"} /\ pc'[c] \in {"sleep", "poll"}) =>
                 timeout'[c] >= timeout[c]]_vars

C14_Witness ==
    /\ network = "kovan"
    /\ warnings["a"] = 1
    /\ pc["a"] = "submitting"
    /\ low["a"] = MaxLowPolls
    /\ absent["a"] = maxTimeout + 1
    /\ polls["a"] = maxTimeout + 1 + MaxLowPolls
    /\ lastReceipt["a"].kind = "null"

\* C15: every submission of a call to a non-constant method, the first and
\* each resubmission, is of the invoked method with the caller's arguments
\* and carries the gas price of the deployment configuration when that is
\* readable (none when it is not).
C15_MutatingCallUsesConfiguredGasPrice ==
    \A c \in CallIds :
        (pc[c] # "idle" /\ ~Interface[fnName[c]].constant) =>
            \A i \in 1..Len(subs[c]) :
                /\ subs[c][i].fnName = fnName[c]
                /\ subs[c][i].args = args[c]
                /\ subs[c][i].gasPrice =
                     IF deployConfig.available THEN deployConfig.gasPrice ELSE {}

C15_Witness ==
    /\ ~Interface[fnName["a"]].constant
    /\ args["a"] = <<2>>
    /\ deployConfig.available
    /\ deployConfig.gasPrice = {ConfigGasPrice}
    /\ Len(subs["a"]) = 2
    /\ subs["a"][2] = [fnName |-> "transfer", args |-> <<2>>, gasPrice |-> {ConfigGasPrice}]
    /\ pc["a"] = "sleep"

\* C16: a call has made one submission more than it has resubmitted; on
\* 'kovan', as long as every poll returned null, the call has resubmitted once
\* per 121 null polls, with no limit other than the number of polls, and has
\* not ended unless a submission itself produced no transaction record.
C16_KovanResubmitsEvery121NullPolls ==
    \A c \in CallIds :
        /\ pc[c] # "idle" => Len(subs[c]) = 1 + warnings[c]
        /\ (network = "kovan" /\ pc[c] # "idle" /\ polls[c] = absent[c]) =>
              /\ warnings[c] = absent[c] \div (maxTimeout + 1)
              /\ ~ReturnedTx(c)
              /\ pc[c] \in {"returned", "failed"} => ~HasWait(fnResult[c])

C16_Witness ==
    /\ network = "kovan"
    /\ polls["a"] = absent["a"]
    /\ absent["a"] = MaxResubmits * (maxTimeout + 1)
    /\ warnings["a"] = MaxResubmits
    /\ Len(subs["a"]) = MaxResubmits + 1
    /\ pc["a"] = "submitting"

\* C17: under fairness of the sleep and of the receipt query, once the node
\* answers every query for the tracked transaction with a receipt of at least
\* numDeployConfirmations confirmations, the call eventually returns that
\* transaction record.
C17_MinedTransactionIsEventuallyReturned ==
    \A c \in CallIds :
        mined[c] ~> (ReturnedTx(c) /\ ret[c] = tx[c] /\ ret[c].id = queried[c])

C17_Witness ==
    /\ mined["a"]
    /\ ReturnedTx("a")
    /\ network = "kovan"
    /\ warnings["a"] = 1
    /\ timeout["a"] >= 1
    /\ low["a"] >= 1

\* C18: for every threshold, 0 included, a call comes to return a transaction
\* record only by a poll that yielded a receipt, after at least one sleep; a
\* poll that returned null never makes the call return and never sets its
\* result.
C18_NoReturnBeforeInclusion ==
    [][\A c \in CallIds :
        /\ (pc[c] # "returned" /\ pc'[c] = "returned" /\ HasWait(ret'[c])) =>
              /\ pc[c] = "poll"
              /\ Polled(c)
              /\ polls'[c] >= 1
              /\ sleeps[c] >= 1
              /\ lastReceipt'[c].kind = "receipt"
        /\ (Polled(c) /\ lastReceipt'[c].kind = "null") =>
              /\ pc'[c] # "returned"
              /\ ret'[c] = NoResult]_vars

C18_Witness ==
    /\ N = 0
    /\ deployConfig.available
    /\ ReturnedTx("a")
    /\ absent["a"] >= 2
    /\ sleeps["a"] = absent["a"] + 1
    /\ polls["a"] = absent["a"] + 1
    /\ lastReceipt["a"] = Receipt(0)
====
